---------------------------- MODULE Spec2Model ----------------------------
(***************************************************************************)
(* A model of transform_csv.py: the CSVTransformer class with its          *)
(* identifier mapper, redaction generators, timestamp normaliser,          *)
(* dispatcher (apply_transformation) and the transform_csv run.            *)
(*                                                                         *)
(* A Python str is a sequence of one-character strings, so that replace,   *)
(* strip, the '@' test, strptime and strftime are computed character by    *)
(* character.  A value returned by a transformation is a tagged record:    *)
(* [str |-> chars] for a Python str, [int |-> n] for a Python int.         *)
(***************************************************************************)
EXTENDS Integers, Sequences, FiniteSets, TLC

(***************************************************************************)
(* Bounds of the model.                                                    *)
(***************************************************************************)
\* how many distinct identifiers the direct mapper calls draw from
NumUuids == 3
\* how many outcomes of each random draw (random.choice, random.randint,
\* random.choices) are explored, counted from the start of the pool or range
MaxDraw == 2

VARIABLES
  uuid_to_int_map,  \* self.uuid_to_int_map: identifier -> integer
  next_id,          \* self.next_id
  call,             \* the last call made on the transformer and its outcome
  seen,             \* history: the distinct identifiers mapped, in first-seen order
  pads_year,        \* whether the platform's strftime zero-pads %Y to 4 digits
  pc,               \* transform_csv: position of the run
  args,             \* transform_csv: the arguments of the current run
  input_columns,    \* transform_csv: reader.fieldnames
  transformed_rows, \* transform_csv: the list of transformed rows
  row_index,        \* transform_csv: how many input records the reader has yielded
  infile_open,      \* the input stream is open
  outfile_open,     \* the output stream is open
  output,           \* what has been written to the output file: header and records
  error,            \* the exception that ended the run, or NoError
  start             \* history: the mapper state when the current run was called

mapper_vars == <<uuid_to_int_map, next_id, seen>>
run_vars == <<pc, args, input_columns, transformed_rows, row_index, infile_open,
              outfile_open, output, error, start>>
vars == <<uuid_to_int_map, next_id, call, seen, pads_year, pc, args, input_columns,
          transformed_rows, row_index, infile_open, outfile_open, output, error, start>>

(***************************************************************************)
(* Python values.                                                          *)
(***************************************************************************)
None == [none |-> TRUE]
PyStr(s) == [str |-> s]
PyInt(n) == [int |-> n]
IsPyStr(v) == DOMAIN v = {"str"}
IsPyInt(v) == DOMAIN v = {"int"}
NoError == [no_error |-> TRUE]
NoCall == [op |-> "none"]

Digits == <<"0", "1", "2", "3", "4", "5", "6", "7", "8", "9">>
IsDigit(c) == \E i \in 1..Len(Digits) : Digits[i] = c
DigitVal(c) == (CHOOSE i \in 1..Len(Digits) : Digits[i] = c) - 1

\* int(text) for a text of decimal digits
RECURSIVE ToInt(_)
ToInt(t) == IF t = <<>> THEN 0
            ELSE 10 * ToInt(SubSeq(t, 1, Len(t) - 1)) + DigitVal(t[Len(t)])

\* str(n) for a natural number: its decimal text
RECURSIVE IntToStr(_)
IntToStr(n) == IF n < 10 THEN <<Digits[n + 1]>>
               ELSE IntToStr(n \div 10) \o <<Digits[(n % 10) + 1]>>

\* str(v) of a Python value, as csv.writer serialises a field
StrOf(v) == IF IsPyInt(v) THEN IntToStr(v.int) ELSE v.str

\* c in s
Contains(s, c) == \E i \in 1..Len(s) : s[i] = c
CountOf(s, c) == Cardinality({i \in 1..Len(s) : s[i] = c})

\* str.replace(old, new): left to right, non-overlapping occurrences
RECURSIVE StrReplace(_, _, _)
StrReplace(s, old, new) ==
  IF Len(s) < Len(old) THEN s
  ELSE IF SubSeq(s, 1, Len(old)) = old
       THEN new \o StrReplace(SubSeq(s, Len(old) + 1, Len(s)), old, new)
       ELSE <<s[1]>> \o StrReplace(Tail(s), old, new)

Whitespace == {" ", "\t", "\n", "\r"}
RECURSIVE LStrip(_)
LStrip(s) == IF s # <<>> /\ s[1] \in Whitespace THEN LStrip(Tail(s)) ELSE s
RECURSIVE RStrip(_)
RStrip(s) == IF s # <<>> /\ s[Len(s)] \in Whitespace
             THEN RStrip(SubSeq(s, 1, Len(s) - 1)) ELSE s
\* str.strip()
StrStrip(s) == RStrip(LStrip(s))

UpperCase == <<"A","B","C","D","E","F","G","H","I","J","K","L","M","N","O","P","Q","R","S","T","U","V","W","X","Y","Z">>
ascii_lowercase == <<"a","b","c","d","e","f","g","h","i","j","k","l","m","n","o","p","q","r","s","t","u","v","w","x","y","z">>
LowerChar(c) == IF \E i \in 1..Len(UpperCase) : UpperCase[i] = c
                THEN ascii_lowercase[CHOOSE i \in 1..Len(UpperCase) : UpperCase[i] = c]
                ELSE c
\* str.lower()
StrLower(s) == [i \in 1..Len(s) |-> LowerChar(s[i])]

Min(a, b) == IF a < b THEN a ELSE b

(***************************************************************************)
(* The pools of the redaction generators.                                  *)
(***************************************************************************)
FIRST_NAMES == <<
    <<"J","a","m","e","s">>, <<"M","a","r","y">>, <<"J","o","h","n">>,
    <<"P","a","t","r","i","c","i","a">>, <<"R","o","b","e","r","t">>,
    <<"J","e","n","n","i","f","e","r">>, <<"M","i","c","h","a","e","l">>, <<"L","i","n","d","a">>,
    <<"W","i","l","l","i","a","m">>, <<"E","l","i","z","a","b","e","t","h">>,
    <<"D","a","v","i","d">>, <<"B","a","r","b","a","r","a">>, <<"R","i","c","h","a","r","d">>,
    <<"S","u","s","a","n">>, <<"J","o","s","e","p","h">>, <<"J","e","s","s","i","c","a">>,
    <<"T","h","o","m","a","s">>, <<"S","a","r","a","h">>, <<"C","h","a","r","l","e","s">>,
    <<"K","a","r","e","n">>, <<"C","h","r","i","s","t","o","p","h","e","r">>,
    <<"N","a","n","c","y">>, <<"D","a","n","i","e","l">>, <<"L","i","s","a">>,
    <<"M","a","t","t","h","e","w">>, <<"B","e","t","t","y">>, <<"A","n","t","h","o","n","y">>,
    <<"M","a","r","g","a","r","e","t">>, <<"M","a","r","k">>, <<"S","a","n","d","r","a">>,
    <<"D","o","n","a","l","d">>, <<"A","s","h","l","e","y">>, <<"S","t","e","v","e","n">>,
    <<"K","i","m","b","e","r","l","y">>, <<"P","a","u","l">>, <<"E","m","i","l","y">>,
    <<"A","n","d","r","e","w">>, <<"D","o","n","n","a">>, <<"J","o","s","h","u","a">>,
    <<"M","i","c","h","e","l","l","e">>, <<"K","e","n","n","e","t","h">>,
    <<"D","o","r","o","t","h","y">>, <<"K","e","v","i","n">>, <<"C","a","r","o","l">>,
    <<"B","r","i","a","n">>, <<"A","m","a","n","d","a">>, <<"G","e","o","r","g","e">>,
    <<"M","e","l","i","s","s","a">>, <<"T","i","m","o","t","h","y">>,
    <<"D","e","b","o","r","a","h">>, <<"R","o","n","a","l","d">>,
    <<"S","t","e","p","h","a","n","i","e">>, <<"E","d","w","a","r","d">>,
    <<"R","e","b","e","c","c","a">>, <<"J","a","s","o","n">>, <<"S","h","a","r","o","n">>,
    <<"J","e","f","f","r","e","y">>, <<"L","a","u","r","a">>, <<"R","y","a","n">>,
    <<"C","y","n","t","h","i","a">>, <<"J","a","c","o","b">>, <<"K","a","t","h","l","e","e","n">>
  >>

LAST_NAMES == <<
    <<"S","m","i","t","h">>, <<"J","o","h","n","s","o","n">>, <<"W","i","l","l","i","a","m","s">>,
    <<"B","r","o","w","n">>, <<"J","o","n","e","s">>, <<"G","a","r","c","i","a">>,
    <<"M","i","l","l","e","r">>, <<"D","a","v","i","s">>, <<"R","o","d","r","i","g","u","e","z">>,
    <<"M","a","r","t","i","n","e","z">>, <<"H","e","r","n","a","n","d","e","z">>,
    <<"L","o","p","e","z">>, <<"G","o","n","z","a","l","e","z">>, <<"W","i","l","s","o","n">>,
    <<"A","n","d","e","r","s","o","n">>, <<"T","h","o","m","a","s">>, <<"T","a","y","l","o","r">>,
    <<"M","o","o","r","e">>, <<"J","a","c","k","s","o","n">>, <<"M","a","r","t","i","n">>,
    <<"L","e","e">>, <<"P","e","r","e","z">>, <<"T","h","o","m","p","s","o","n">>,
    <<"W","h","i","t","e">>, <<"H","a","r","r","i","s">>, <<"S","a","n","c","h","e","z">>,
    <<"C","l","a","r","k">>, <<"R","a","m","i","r","e","z">>, <<"L","e","w","i","s">>,
    <<"R","o","b","i","n","s","o","n">>, <<"W","a","l","k","e","r">>, <<"Y","o","u","n","g">>,
    <<"A","l","l","e","n">>, <<"K","i","n","g">>, <<"W","r","i","g","h","t">>,
    <<"S","c","o","t","t">>, <<"T","o","r","r","e","s">>, <<"N","g","u","y","e","n">>,
    <<"H","i","l","l">>, <<"F","l","o","r","e","s">>, <<"G","r","e","e","n">>,
    <<"A","d","a","m","s">>, <<"N","e","l","s","o","n">>, <<"B","a","k","e","r">>,
    <<"H","a","l","l">>, <<"R","i","v","e","r","a">>, <<"C","a","m","p","b","e","l","l">>,
    <<"M","i","t","c","h","e","l","l">>, <<"C","a","r","t","e","r">>,
    <<"R","o","b","e","r","t","s">>
  >>

EMAIL_DOMAINS == <<
    <<"t","e","s","t",".","c","o","m">>, <<"e","x","a","m","p","l","e",".","c","o","m">>,
    <<"d","e","m","o",".","n","e","t">>, <<"s","a","m","p","l","e",".","o","r","g">>,
    <<"r","e","d","a","c","t","e","d",".","i","o">>
  >>

(***************************************************************************)
(* The identifier mapper.                                                  *)
(***************************************************************************)
EmptyMap == [k \in {} |-> 0]

\* self.uuid_to_int_map[key] = value
MapStore(map, key, value) ==
  [k \in (DOMAIN map) \cup {key} |-> IF k = key THEN value ELSE map[k]]

\* faulty variant: the counter is not incremented after a new key is stored
uuid_to_sequential_int_no_increment(map, nxt, uuid_string) ==
  IF uuid_string \in DOMAIN map
  THEN [ret |-> map[uuid_string], map |-> map, next_id |-> nxt]
  ELSE [ret |-> nxt, map |-> MapStore(map, uuid_string, nxt), next_id |-> nxt]
\* faulty variant: the counter is incremented on every call, lookups included
uuid_to_sequential_int_counts_lookups(map, nxt, uuid_string) ==
  IF uuid_string \in DOMAIN map
  THEN [ret |-> map[uuid_string], map |-> map, next_id |-> nxt + 1]
  ELSE [ret |-> nxt, map |-> MapStore(map, uuid_string, nxt), next_id |-> nxt + 1]
\* uuid_to_sequential_int(uuid_string) on the mapper (map, nxt): the value
\* returned and the mapper state it leaves
uuid_to_sequential_int(map, nxt, uuid_string) ==
  IF uuid_string \in DOMAIN map
  THEN [ret |-> map[uuid_string], map |-> map, next_id |-> nxt]
  ELSE LET stored == MapStore(map, uuid_string, nxt)
       IN  [ret |-> stored[uuid_string], map |-> stored, next_id |-> nxt + 1]

(***************************************************************************)
(* The random module: the outcomes of a draw that the model explores.      *)
(***************************************************************************)
\* random.choice(pool)
RandomChoice(pool) == {pool[i] : i \in 1..Min(MaxDraw, Len(pool))}
\* random.randint(a, b), both ends included
RandInt(a, b) == {x \in a..b : x < a + MaxDraw \/ x = b}
\* random.choices(population, k=k): k independent draws
RandomChoices(population, k) ==
  {[i \in 1..k |-> IF i % 2 = 1 THEN c1 ELSE c2] :
     c1 \in RandomChoice(population), c2 \in RandomChoice(population)}

(***************************************************************************)
(* The redaction generators: the set of values a call can return.          *)
(***************************************************************************)
redact_name(name) ==
  {PyStr(first_name \o <<" ">> \o last_name) :
     first_name \in RandomChoice(FIRST_NAMES), last_name \in RandomChoice(LAST_NAMES)}

LocalLengthMin == 5
LocalLengthMax == 10
redact_email(email) ==
  UNION {{PyStr(local_part \o <<"@">> \o domain) :
            local_part \in RandomChoices(ascii_lowercase, local_length),
            domain \in RandomChoice(EMAIL_DOMAINS)} :
         local_length \in RandInt(LocalLengthMin, LocalLengthMax)}

\* faulty variant: the '@' test is dropped
redact_always_name(value) == redact_name(value)
\* the value is a str here, so str(value) is the value
redact(value) ==
  IF Contains(value, "@") THEN redact_email(value) ELSE redact_name(value)

(***************************************************************************)
(* datetime.strptime and strftime, as timestamp_to_date uses them.         *)
(* A format is a sequence of directives; strptime compiles each directive  *)
(* to a regular expression, matches case-insensitively, and requires the   *)
(* whole string to be consumed.                                            *)
(***************************************************************************)
MonthAbbr == <<<<"j","a","n">>, <<"f","e","b">>, <<"m","a","r">>, <<"a","p","r">>, <<"m","a","y">>, <<"j","u","n">>,
               <<"j","u","l">>, <<"a","u","g">>, <<"s","e","p">>, <<"o","c","t">>, <<"n","o","v">>, <<"d","e","c">>>>

AllDigits(t) == \A i \in 1..Len(t) : IsDigit(t[i])

\* the text t matches the regular expression of the directive
DirectiveMatches(directive, t) ==
  CASE directive = "%Y" -> Len(t) = 4 /\ AllDigits(t)
    [] directive = "%m" -> \/ Len(t) = 2 /\ AllDigits(t) /\ ToInt(t) \in 1..12
                           \/ Len(t) = 1 /\ AllDigits(t) /\ ToInt(t) \in 1..9
    [] directive = "%d" -> \/ Len(t) = 2 /\ AllDigits(t) /\ ToInt(t) \in 1..31
                           \/ Len(t) = 1 /\ AllDigits(t) /\ ToInt(t) \in 1..9
                           \/ Len(t) = 2 /\ t[1] = " " /\ IsDigit(t[2]) /\ DigitVal(t[2]) \in 1..9
    [] directive = "%H" -> \/ Len(t) = 2 /\ AllDigits(t) /\ ToInt(t) \in 0..23
                           \/ Len(t) = 1 /\ AllDigits(t)
    [] directive = "%M" -> \/ Len(t) = 2 /\ AllDigits(t) /\ ToInt(t) \in 0..59
                           \/ Len(t) = 1 /\ AllDigits(t)
    [] directive = "%S" -> \/ Len(t) = 2 /\ AllDigits(t) /\ ToInt(t) \in 0..61
                           \/ Len(t) = 1 /\ AllDigits(t)
    [] directive = "%b" -> \E i \in 1..Len(MonthAbbr) : MonthAbbr[i] = StrLower(t)
    [] directive = " "  -> Len(t) >= 1 /\ \A i \in 1..Len(t) : t[i] \in Whitespace
    [] OTHER            -> t = <<directive>>

\* the number the directive's text stands for (0 for a literal)
DirectiveValue(directive, t) ==
  CASE directive \in {"%Y", "%m", "%H", "%M", "%S"} -> ToInt(t)
    [] directive = "%d" -> IF t[1] = " " THEN DigitVal(t[2]) ELSE ToInt(t)
    [] directive = "%b" -> CHOOSE i \in 1..Len(MonthAbbr) : MonthAbbr[i] = StrLower(t)
    [] OTHER            -> 0

\* every way the format matches the whole string: one value per directive
RECURSIVE StrptimeMatches(_, _)
StrptimeMatches(s, fmt) ==
  IF fmt = <<>> THEN (IF s = <<>> THEN {<<>>} ELSE {})
  ELSE UNION {
         {<<DirectiveValue(fmt[1], SubSeq(s, 1, k))>> \o rest :
            rest \in StrptimeMatches(SubSeq(s, k + 1, Len(s)), Tail(fmt))} :
         k \in {j \in 1..Len(s) : DirectiveMatches(fmt[1], SubSeq(s, 1, j))}}

IsLeap(y) == (y % 4 = 0) /\ ((y % 100 # 0) \/ (y % 400 = 0))
DaysInMonth(y, m) ==
  IF m = 2 THEN (IF IsLeap(y) THEN 29 ELSE 28)
  ELSE IF m \in {4, 6, 9, 11} THEN 30 ELSE 31

\* the fields of a match: year, month, day at directives 1, 3, 5 and, in the
\* format with a time, hour, minute, second at 7, 9, 11
FieldsOf(m) == [year |-> m[1], month |-> m[3], day |-> m[5],
                second |-> IF Len(m) > 5 THEN m[11] ELSE 0]

\* datetime(...) accepts the fields (otherwise strptime raises ValueError)
ValidDate(f) == /\ f.year >= 1
                /\ f.day <= DaysInMonth(f.year, f.month)
                /\ f.second <= 59

\* datetime.strptime(s, fmt): the parsed date, or ValueError
strptime(s, fmt) ==
  LET matches == StrptimeMatches(s, fmt) IN
  IF matches = {} THEN [ok |-> FALSE]
  ELSE LET f == FieldsOf(CHOOSE m \in matches : TRUE) IN
       IF ValidDate(f) THEN [ok |-> TRUE, date |-> f] ELSE [ok |-> FALSE]

ZeroPad(t, width) == [i \in 1..(width - Min(width, Len(t))) |-> "0"] \o t

\* date_obj.strftime("%Y-%m-%d"): %m and %d are two digits; whether %Y is
\* zero-padded to four digits for a year below 1000 depends on the platform's
\* C library (pads says which)
strftime(date, pads) ==
  (IF pads THEN ZeroPad(IntToStr(date.year), 4) ELSE IntToStr(date.year))
  \o <<"-">> \o ZeroPad(IntToStr(date.month), 2) \o <<"-">> \o ZeroPad(IntToStr(date.day), 2)

formats == << <<"%Y", "-", "%b", "-", "%d">>,
              <<"%Y", "-", "%m", "-", "%d", " ", "%H", ":", "%M", ":", "%S">>,
              <<"%Y", "-", "%m", "-", "%d">> >>

\* timestamp_string.replace(" CET", "").strip()
Preprocess(timestamp_string) == StrStrip(StrReplace(timestamp_string, <<" ","C","E","T">>, <<>>))

\* the loop over the formats, from format number i on
RECURSIVE TryFormats(_, _, _)
TryFormats(s, i, pads) ==
  IF i > Len(formats) THEN s
  ELSE LET parsed == strptime(s, formats[i]) IN
       IF parsed.ok THEN strftime(parsed.date, pads) ELSE TryFormats(s, i + 1, pads)

timestamp_to_date(timestamp_string, pads) ==
  TryFormats(Preprocess(timestamp_string), 1, pads)

(***************************************************************************)
(* The dispatcher.                                                         *)
(***************************************************************************)
\* a transformation kind given as a string; None is the absent kind
Kind(name) == [kind |-> name]
NoValue == [no_value |-> TRUE]

\* the keys of the registry, in the order of the dict literal
get_transformations == <<"uuid_to_int", "redact", "timestamp_to_date">>
InRegistry(name) == \E i \in 1..Len(get_transformations) : get_transformations[i] = name

\* ValueError(f"Unknown transformation type: '{transformation_type}'. Available: {...}")
UnknownTransformation(name) ==
  [type |-> "ValueError", unknown |-> name, available |-> get_transformations]

Returned(value, map, nxt) == [ret |-> value, error |-> NoError, map |-> map, next_id |-> nxt]
Raised(err, map, nxt) == [ret |-> NoValue, error |-> err, map |-> map, next_id |-> nxt]

\* faulty variant: a kind that is not in the registry passes the value through
apply_transformation_passes_unknown(map, nxt, value, transformation_type, pads) ==
  IF transformation_type = None \/ ~InRegistry(transformation_type.kind)
  THEN {Returned(PyStr(value), map, nxt)}
  ELSE IF transformation_type.kind = "uuid_to_int"
  THEN LET r == uuid_to_sequential_int(map, nxt, value)
       IN  {Returned(PyInt(r.ret), r.map, r.next_id)}
  ELSE IF transformation_type.kind = "redact"
  THEN {Returned(v, map, nxt) : v \in redact(value)}
  ELSE {Returned(PyStr(timestamp_to_date(value, pads)), map, nxt)}
\* faulty variant: an absent kind is treated as 'redact'
apply_transformation_none_is_redact(map, nxt, value, transformation_type, pads) ==
  IF transformation_type = None
  THEN {Returned(v, map, nxt) : v \in redact(value)}
  ELSE IF ~InRegistry(transformation_type.kind)
  THEN {Raised(UnknownTransformation(transformation_type.kind), map, nxt)}
  ELSE IF transformation_type.kind = "uuid_to_int"
  THEN LET r == uuid_to_sequential_int(map, nxt, value)
       IN  {Returned(PyInt(r.ret), r.map, r.next_id)}
  ELSE IF transformation_type.kind = "redact"
  THEN {Returned(v, map, nxt) : v \in redact(value)}
  ELSE {Returned(PyStr(timestamp_to_date(value, pads)), map, nxt)}
\* apply_transformation(value, transformation_type) on a transformer whose mapper
\* is (map, nxt): the set of outcomes, each the value returned or the error
\* raised together with the mapper state left behind
apply_transformation(map, nxt, value, transformation_type, pads) ==
  IF transformation_type = None
  THEN {Returned(PyStr(value), map, nxt)}
  ELSE IF ~InRegistry(transformation_type.kind)
  THEN {Raised(UnknownTransformation(transformation_type.kind), map, nxt)}
  ELSE IF transformation_type.kind = "uuid_to_int"
  THEN LET r == uuid_to_sequential_int(map, nxt, value)
       IN  {Returned(PyInt(r.ret), r.map, r.next_id)}
  ELSE IF transformation_type.kind = "redact"
  THEN {Returned(v, map, nxt) : v \in redact(value)}
  ELSE {Returned(PyStr(timestamp_to_date(value, pads)), map, nxt)}

(***************************************************************************)
(* The inputs the calls are drawn from.                                    *)
(***************************************************************************)
Uuid(i) == <<"U","U","I","D","-">> \o IntToStr(i)
Identifiers == {Uuid(i) : i \in 1..NumUuids}

TimestampInputs ==
  { <<"2","0","2","5","-","M","a","r","-","0","1">>, <<"2","0","2","5","-","0","3","-","2","3"," ","1","6",":","5","4",":","4","3"," ","C","E","T">>, <<"2","0","2","5","-","0","3","-","2","3">>, <<"2","0","2","1","-","F","e","b","-","1","7">>,
    <<"2","0","2","4","-","D","e","c","-","3","1">>, <<"2","0","2","5","-","0","1","-","1","5"," ","1","0",":","3","0",":","0","0"," ","C","E","T">>, <<" ","2","0","2","5","-","0","3","-","2","3"," ">>, <<"2","0","2","5","-","3","-","1">>,
    <<"2","0","2","5","-","0","3","-"," ","5">>, <<"2","0","2","5","-","M","A","R","-","0","1">>, <<"2","0","2","5","-","0","2","-","3","0">>, <<"2","0","2","4","-","0","2","-","2","9">>, <<"2","0","2","5","-","1","3","-","0","1">>,
    <<"0","9","9","9","-","0","1","-","0","1">>, <<"0","0","0","0","-","0","1","-","0","1">>, <<"2","0","2","5","-","0","3","-","2","3"," ","1","6",":","5","4",":","6","1">>, <<"2","0","2","5","-","0","3","-","2","3"," "," ","7",":","0","5",":","0","9">>,
    <<"2","0","2","5","-","0","3","-","2","3"," ","C","E","T"," ","1","6",":","5","4",":","4","3">>, <<"2","0","2","5","-","0","3","-","2","3","T","1","6",":","5","4",":","4","3">>, <<"2","0","2","5","-","0","3","-","2","3"," ","1","6",":","5","4">>,
    <<"M","a","r","-","0","1","-","2","0","2","5">>, <<"n","o","t"," ","a"," ","d","a","t","e">>, <<"\t","2","0","2","4","-","D","e","c","-","3","1"," ","C","E","T","\n">>, <<" ","C","E","T">>, <<>> }

RedactInputs == { <<"J","o","h","n"," ","D","o","e">>, <<"t","e","s","t","@","e","x","a","m","p","l","e",".","c","o","m">>, <<"@">>, <<>>,
                  <<"a","@","b","@","c">>, <<"j","o","h","n",".","e","x","a","m","p","l","e",".","c","o","m">> }

PlainInputs == { <<"s","o","m","e"," ","v","a","l","u","e">>, <<"2","0","2","5","-","M","a","r","-","0","1">>, <<"J","o","h","n"," ","D","o","e">>, <<"t","e","s","t","@","e","x","a","m","p","l","e",".","c","o","m">> }

KindInputs ==
  {None} \cup {Kind(get_transformations[i]) : i \in 1..Len(get_transformations)}
         \cup {Kind("unknown_transform"), Kind("REDACT"), Kind("")}

\* the (value, kind) pairs apply_transformation is called with: the identifiers
\* under every kind, the other values under every kind but 'uuid_to_int'
ApplyInputs ==
  (Identifiers \X KindInputs)
  \cup (PlainInputs \X (KindInputs \ {Kind("uuid_to_int")}))

(***************************************************************************)
(* History of the mapper: the distinct identifiers in first-seen order.    *)
(***************************************************************************)
InSeq(sq, x) == \E i \in 1..Len(sq) : sq[i] = x
IndexOf(sq, x) == CHOOSE i \in 1..Len(sq) : sq[i] = x
Note(sq, x) == IF InSeq(sq, x) THEN sq ELSE Append(sq, x)

(***************************************************************************)
(* The calls on a transformer, one action per public method.  A call is    *)
(* made when the caller holds no pending result; `call` then records the   *)
(* call and its outcome until the caller discards it.                      *)
(***************************************************************************)
CallUuidToSequentialInt ==
  /\ call = NoCall
  /\ \E u \in Identifiers :
    LET r == uuid_to_sequential_int(uuid_to_int_map, next_id, u) IN
    /\ uuid_to_int_map' = r.map
    /\ next_id' = r.next_id
    /\ seen' = Note(seen, u)
    /\ call' = [op |-> "uuid_to_sequential_int", arg |-> u, kind |-> None,
                ret |-> PyInt(r.ret), error |-> NoError]
    /\ UNCHANGED <<pads_year, run_vars>>

CallRedactName ==
  /\ call = NoCall
  /\ \E v \in RedactInputs : \E r \in redact_name(v) :
    /\ call' = [op |-> "redact_name", arg |-> v, kind |-> None, ret |-> r,
                error |-> NoError]
    /\ UNCHANGED <<mapper_vars, pads_year, run_vars>>

CallRedactEmail ==
  /\ call = NoCall
  /\ \E v \in RedactInputs : \E r \in redact_email(v) :
    /\ call' = [op |-> "redact_email", arg |-> v, kind |-> None, ret |-> r,
                error |-> NoError]
    /\ UNCHANGED <<mapper_vars, pads_year, run_vars>>

CallRedact ==
  /\ call = NoCall
  /\ \E v \in RedactInputs : \E r \in redact(v) :
    /\ call' = [op |-> "redact", arg |-> v, kind |-> None, ret |-> r,
                error |-> NoError]
    /\ UNCHANGED <<mapper_vars, pads_year, run_vars>>

CallTimestampToDate ==
  /\ call = NoCall
  /\ \E s \in TimestampInputs :
    /\ call' = [op |-> "timestamp_to_date", arg |-> s, kind |-> None,
                ret |-> PyStr(timestamp_to_date(s, pads_year)), error |-> NoError]
    /\ UNCHANGED <<mapper_vars, pads_year, run_vars>>

CallApplyTransformation ==
  /\ call = NoCall
  /\ \E in \in ApplyInputs :
    \E o \in apply_transformation(uuid_to_int_map, next_id, in[1], in[2], pads_year) :
      /\ uuid_to_int_map' = o.map
      /\ next_id' = o.next_id
      /\ seen' = IF in[2] = Kind("uuid_to_int") THEN Note(seen, in[1]) ELSE seen
      /\ call' = [op |-> "apply_transformation", arg |-> in[1], kind |-> in[2],
                  ret |-> o.ret, error |-> o.error]
      /\ UNCHANGED <<pads_year, run_vars>>

\* the caller is done with the result of the last call
Discard ==
  /\ call # NoCall
  /\ call' = NoCall
  /\ UNCHANGED <<mapper_vars, pads_year, run_vars>>

(***************************************************************************)
(* transform_csv: the arguments the runs are drawn from.  An input file is *)
(* its header and its records, each record a sequence of cells aligned     *)
(* with the header (a well-formed file: every record has one cell per      *)
(* column).                                                                *)
(***************************************************************************)
PyDict(f) == [dict |-> f]
PyList(sq) == [list |-> sq]
EmptyDict == [k \in {} |-> None]

InputFiles ==
  { \* the file of test_transform_csv_basic
    [header |-> <<"id", "name", "date">>,
     rows |-> << <<Uuid(1), <<"J","o","h","n"," ","D","o","e">>, <<"2","0","2","5","-","M","a","r","-","0","1">>>>,
                 <<Uuid(2), <<"J","a","n","e"," ","S","m","i","t","h">>, <<"2","0","2","4","-","D","e","c","-","3","1">>>> >>],
    \* an identifier that comes back, in two identifier columns
    [header |-> <<"id", "manager_id", "date">>,
     rows |-> << <<Uuid(2), Uuid(1), <<"2","0","2","5","-","0","3","-","2","3"," ","1","6",":","5","4",":","4","3"," ","C","E","T">>>>,
                 <<Uuid(1), Uuid(2), <<"n","o","t"," ","a"," ","d","a","t","e">>>>,
                 <<Uuid(2), Uuid(2), <<"2","0","2","5","-","0","3","-","2","3">>>> >>],
    \* one record: a name and an e-mail address
    [header |-> <<"id", "name", "email">>,
     rows |-> << <<Uuid(2), <<"J","o","h","n"," ","D","o","e">>, <<"j","o","h","n","@","e","x","a","m","p","l","e",".","c","o","m">>>> >>],
    \* a header and no record
    [header |-> <<"id", "name", "date">>, rows |-> <<>>] }

Dict1(k1, v1) == PyDict([k \in {k1} |-> Kind(v1)])
Dict2(k1, v1, k2, v2) == PyDict([k \in {k1, k2} |-> Kind(IF k = k1 THEN v1 ELSE v2)])
Dict3(k1, v1, k2, v2, k3, v3) ==
  PyDict([k \in {k1, k2, k3} |-> Kind(IF k = k1 THEN v1 ELSE IF k = k2 THEN v2 ELSE v3)])

TransformationInputs ==
  { None,
    PyDict(EmptyDict),
    Dict3("id", "uuid_to_int", "name", "redact", "date", "timestamp_to_date"),
    Dict3("id", "uuid_to_int", "manager_id", "uuid_to_int", "date", "timestamp_to_date"),
    Dict2("email", "redact", "date", "timestamp_to_date"),
    Dict1("manager_id", "uuid_to_int"),
    Dict2("id", "uuid_to_int", "date", "unknown_transform"),
    Dict1("name", "Redact"),
    Dict1("email", "bogus_kind") }

Reverse(sq) == [i \in 1..Len(sq) |-> sq[Len(sq) + 1 - i]]

\* the column orders tried with an input header: none, an empty list, two
\* permutations, one that leaves the last column out, one with an unknown name
ColumnOrderInputs(header) ==
  { None,
    PyList(<<>>),
    PyList(Reverse(header)),
    PyList(Tail(header) \o <<Head(header)>>),
    PyList(SubSeq(header, 1, Len(header) - 1)),
    PyList(<<"extra">> \o header) }

(***************************************************************************)
(* transform_csv: the pieces of the run.                                   *)
(***************************************************************************)
Range(sq) == {sq[i] : i \in 1..Len(sq)}

\* csv.DictReader: dict(zip(fieldnames, record)); the last cell wins under a
\* repeated name
DictRow(fieldnames, record) ==
  [c \in Range(fieldnames) |->
     record[CHOOSE i \in 1..Len(fieldnames) :
              fieldnames[i] = c /\ \A j \in (i + 1)..Len(fieldnames) : fieldnames[j] # c]]

\* transformations.get(column)
DictGet(d, key) == IF key \in DOMAIN d THEN d[key] ELSE None

\* if transformations is None: transformations = {}
Transformations(transformations) ==
  IF transformations = None THEN EmptyDict ELSE transformations.dict

\* output_columns = column_order if column_order else input_columns
OutputColumns(column_order, columns) ==
  IF column_order # None /\ column_order.list # <<>> THEN column_order.list ELSE columns

\* the inner loop over input_columns from column number i on: acc is the
\* transformed_row built so far with the mapper state and the identifiers
\* mapped so far; the result is the set of outcomes of the row
RECURSIVE TransformColumns(_, _, _, _, _, _)
TransformColumns(acc, row, columns, i, transformations, pads) ==
  IF i > Len(columns) \/ acc.error # NoError THEN {acc}
  ELSE LET column == columns[i]
           transformation_type == DictGet(transformations, column)
       IN  UNION {
             TransformColumns(
               [transformed_row |->
                  IF o.error = NoError
                  THEN MapStore(acc.transformed_row, column, o.ret)
                  ELSE acc.transformed_row,
                map |-> o.map, next_id |-> o.next_id, error |-> o.error,
                mapped |-> IF transformation_type = Kind("uuid_to_int")
                           THEN Append(acc.mapped, row[column]) ELSE acc.mapped],
               row, columns, i + 1, transformations, pads) :
             o \in apply_transformation(acc.map, acc.next_id, row[column],
                                        transformation_type, pads)}

\* faulty variant: the columns are visited in the output order, when the
\* column_order of the run permutes the input columns
TransformRowInOutputOrder(map, nxt, row, columns, transformations, pads) ==
  LET output_columns == OutputColumns(args.column_order, columns) IN
  TransformColumns([transformed_row |-> EmptyDict, map |-> map, next_id |-> nxt,
                    error |-> NoError, mapped |-> <<>>],
                   row,
                   IF Len(output_columns) = Len(columns)
                      /\ Range(output_columns) = Range(columns)
                   THEN output_columns ELSE columns,
                   1, transformations, pads)
\* the body of `for row in reader` up to the append
TransformRow(map, nxt, row, columns, transformations, pads) ==
  TransformColumns([transformed_row |-> EmptyDict, map |-> map, next_id |-> nxt,
                    error |-> NoError, mapped |-> <<>>],
                   row, columns, 1, transformations, pads)

\* faulty variant: the row is inserted at the front
AppendRowInFront(rows, transformed_row) == <<transformed_row>> \o rows
\* transformed_rows.append(transformed_row)
AppendRow(rows, transformed_row) == Append(rows, transformed_row)

\* faulty variant: every field holds the value of the next fieldname
DictToListShifted(fieldnames, rowdict) ==
  IF (DOMAIN rowdict) \ Range(fieldnames) # {}
  THEN [error |-> [type |-> "ValueError", extras |-> (DOMAIN rowdict) \ Range(fieldnames)]]
  ELSE [error |-> NoError,
        fields |-> [j \in 1..Len(fieldnames) |->
                      LET name == fieldnames[(j % Len(fieldnames)) + 1] IN
                      IF name \in DOMAIN rowdict THEN StrOf(rowdict[name]) ELSE <<>>]]
\* csv.DictWriter._dict_to_list with extrasaction='raise' and restval='':
\* the fields of the record in the order of fieldnames, or ValueError when
\* the row has a key that is no fieldname
DictToList(fieldnames, rowdict) ==
  IF (DOMAIN rowdict) \ Range(fieldnames) # {}
  THEN [error |-> [type |-> "ValueError", extras |-> (DOMAIN rowdict) \ Range(fieldnames)]]
  ELSE [error |-> NoError,
        fields |-> [j \in 1..Len(fieldnames) |->
                      IF fieldnames[j] \in DOMAIN rowdict
                      THEN StrOf(rowdict[fieldnames[j]]) ELSE <<>>]]

OSError == [type |-> "OSError"]
\* the output file: whether this run has opened (and so truncated) it, whether
\* the header line is written, the header and the records written
Untouched == [truncated |-> FALSE, header_written |-> FALSE, header |-> <<>>,
              records |-> <<>>]
EmptyFile == [truncated |-> TRUE, header_written |-> FALSE, header |-> <<>>,
              records |-> <<>>]

\* faulty variant: the stream stays open when the block is left by an error
ExitWithLeaksOnError(raised) == raised
\* leaving a with block closes its stream, on the normal path and on the
\* error path (raised): the stream is open afterwards?
ExitWith(raised) == FALSE

\* faulty variant: the exception is caught and the call returns normally
PropagateSwallowed(err) == [pc |-> "returned", error |-> NoError]
\* an exception raised inside transform_csv: nothing catches it, the call ends
\* with the exception
Propagate(err) == [pc |-> "raised", error |-> err]

\* the identifiers of a row noted in the history, in the order they were mapped
RECURSIVE NoteAll(_, _)
NoteAll(sq, ids) == IF ids = <<>> THEN sq ELSE NoteAll(Note(sq, Head(ids)), Tail(ids))

(***************************************************************************)
(* transform_csv: the run, one action per step.  The caller is single-     *)
(* threaded: a run starts when no run is in progress and no call result is *)
(* pending.                                                                *)
(***************************************************************************)
\* the call: transformations defaults to {} and transformed_rows = []
TransformCsv ==
  /\ pc = "idle"
  /\ call = NoCall
  /\ \E file \in InputFiles, transformations \in TransformationInputs :
       \E column_order \in ColumnOrderInputs(file.header) :
         args' = [input_file |-> file, transformations |-> transformations,
                  column_order |-> column_order]
  /\ transformed_rows' = <<>>
  /\ start' = [map |-> uuid_to_int_map, next_id |-> next_id]
  /\ pc' = "open_input"
  /\ UNCHANGED <<mapper_vars, call, pads_year, input_columns, row_index, infile_open,
                 outfile_open, output, error>>

\* with open(input_file, 'r') as infile
OpenInput ==
  /\ pc = "open_input"
  /\ infile_open' = TRUE
  /\ pc' = "read_header"
  /\ UNCHANGED <<mapper_vars, call, pads_year, args, input_columns, transformed_rows,
                 row_index, outfile_open, output, error, start>>

\* open raises (no such file, no permission): no stream was opened
OpenInputFails ==
  /\ pc = "open_input"
  /\ pc' = Propagate(OSError).pc
  /\ error' = Propagate(OSError).error
  /\ UNCHANGED <<mapper_vars, call, pads_year, args, input_columns, transformed_rows,
                 row_index, infile_open, outfile_open, output, start>>

\* input_columns = reader.fieldnames
ReadHeader ==
  /\ pc = "read_header"
  /\ input_columns' = args.input_file.header
  /\ pc' = "read_rows"
  /\ UNCHANGED <<mapper_vars, call, pads_year, args, transformed_rows, row_index,
                 infile_open, outfile_open, output, error, start>>

\* reading the header or the next record raises: the with block closes infile
ReadFails ==
  /\ pc \in {"read_header", "read_rows"}
  /\ infile_open' = ExitWith(TRUE)
  /\ pc' = Propagate(OSError).pc
  /\ error' = Propagate(OSError).error
  /\ UNCHANGED <<mapper_vars, call, pads_year, args, input_columns, transformed_rows,
                 row_index, outfile_open, output, start>>

\* one turn of `for row in reader`: every column of the row goes through
\* apply_transformation in the order of input_columns; an error of the
\* dispatcher leaves the loop and the with block
TransformNextRow ==
  /\ pc = "read_rows"
  /\ row_index < Len(args.input_file.rows)
  /\ LET row == DictRow(input_columns, args.input_file.rows[row_index + 1]) IN
     \E o \in TransformRow(uuid_to_int_map, next_id, row, input_columns,
                           Transformations(args.transformations), pads_year) :
       /\ uuid_to_int_map' = o.map
       /\ next_id' = o.next_id
       /\ seen' = NoteAll(seen, o.mapped)
       /\ row_index' = row_index + 1
       /\ IF o.error = NoError
          THEN /\ transformed_rows' = AppendRow(transformed_rows, o.transformed_row)
               /\ UNCHANGED <<pc, error, infile_open>>
          ELSE /\ infile_open' = ExitWith(TRUE)
               /\ pc' = Propagate(o.error).pc
               /\ error' = Propagate(o.error).error
               /\ UNCHANGED transformed_rows
  /\ UNCHANGED <<call, pads_year, args, input_columns, outfile_open, output, start>>

\* the reader is exhausted: the with block closes infile
EndOfInput ==
  /\ pc = "read_rows"
  /\ row_index = Len(args.input_file.rows)
  /\ infile_open' = ExitWith(FALSE)
  /\ pc' = "open_output"
  /\ UNCHANGED <<mapper_vars, call, pads_year, args, input_columns, transformed_rows,
                 row_index, outfile_open, output, error, start>>

\* with open(output_file, 'w', newline='') as outfile: the file is truncated
OpenOutput ==
  /\ pc = "open_output"
  /\ outfile_open' = TRUE
  /\ output' = EmptyFile
  /\ pc' = "write_header"
  /\ UNCHANGED <<mapper_vars, call, pads_year, args, input_columns, transformed_rows,
                 row_index, infile_open, error, start>>

OpenOutputFails ==
  /\ pc = "open_output"
  /\ pc' = Propagate(OSError).pc
  /\ error' = Propagate(OSError).error
  /\ UNCHANGED <<mapper_vars, call, pads_year, args, input_columns, transformed_rows,
                 row_index, infile_open, outfile_open, output, start>>

\* writer = csv.DictWriter(outfile, fieldnames=output_columns); writer.writeheader()
WriteHeader ==
  /\ pc = "write_header"
  /\ output' = [output EXCEPT !.header_written = TRUE,
                              !.header = OutputColumns(args.column_order, input_columns)]
  /\ pc' = "write_rows"
  /\ UNCHANGED <<mapper_vars, call, pads_year, args, input_columns, transformed_rows,
                 row_index, infile_open, outfile_open, error, start>>

\* writer.writerows(transformed_rows), one record at a time: a row with a
\* key that is no fieldname raises ValueError and the with block closes outfile
WriteRow ==
  /\ pc = "write_rows"
  /\ Len(output.records) < Len(transformed_rows)
  /\ LET d == DictToList(output.header, transformed_rows[Len(output.records) + 1]) IN
     IF d.error = NoError
     THEN /\ output' = [output EXCEPT !.records = Append(@, d.fields)]
          /\ UNCHANGED <<pc, error, outfile_open>>
     ELSE /\ outfile_open' = ExitWith(TRUE)
          /\ pc' = Propagate(d.error).pc
          /\ error' = Propagate(d.error).error
          /\ UNCHANGED output
  /\ UNCHANGED <<mapper_vars, call, pads_year, args, input_columns, transformed_rows,
                 row_index, infile_open, start>>

\* a write to the stream raises (while the header or a record is written, or
\* when the buffered data is flushed at the end): the with block closes outfile
WriteFails ==
  /\ pc \in {"write_header", "write_rows"}
  /\ outfile_open' = ExitWith(TRUE)
  /\ pc' = Propagate(OSError).pc
  /\ error' = Propagate(OSError).error
  /\ UNCHANGED <<mapper_vars, call, pads_year, args, input_columns, transformed_rows,
                 row_index, infile_open, output, start>>

\* every row is written: the with block closes outfile and the call returns
FinishWrite ==
  /\ pc = "write_rows"
  /\ Len(output.records) = Len(transformed_rows)
  /\ outfile_open' = ExitWith(FALSE)
  /\ pc' = "returned"
  /\ UNCHANGED <<mapper_vars, call, pads_year, args, input_columns, transformed_rows,
                 row_index, infile_open, output, error, start>>

\* the caller goes on after the run returned or raised; the transformer lives on
AfterRun ==
  /\ pc \in {"returned", "raised"}
  /\ pc' = "idle"
  /\ args' = None
  /\ input_columns' = <<>>
  /\ transformed_rows' = <<>>
  /\ row_index' = 0
  /\ output' = Untouched
  /\ error' = NoError
  /\ start' = [map |-> EmptyMap, next_id |-> 1]
  /\ UNCHANGED <<mapper_vars, call, pads_year, infile_open, outfile_open>>

\* faulty variant: the table and the counter are shared by all transformers
\* (class attributes): the new transformer finds what the live one holds
CSVTransformerSharesMapper(live) == live
\* __init__: the new transformer has a table and a counter of its own, empty
\* and 1, whatever the transformer used so far (live) holds
CSVTransformerInit(live) == [uuid_to_int_map |-> EmptyMap, next_id |-> 1]

\* transformer = CSVTransformer(): the caller goes on with a new transformer
Construct ==
  /\ pc = "idle"
  /\ call = NoCall
  /\ uuid_to_int_map # EmptyMap
  /\ LET new == CSVTransformerInit([uuid_to_int_map |-> uuid_to_int_map,
                                    next_id |-> next_id]) IN
     /\ uuid_to_int_map' = new.uuid_to_int_map
     /\ next_id' = new.next_id
  /\ seen' = <<>>
  /\ UNCHANGED <<call, pads_year, run_vars>>

(***************************************************************************)
(* Properties of the calls (checked under Spec).                           *)
(***************************************************************************)
Recognized == {"uuid_to_int", "redact", "timestamp_to_date"}

\* the call went to the identifier mapper, directly or through the dispatcher
IsMappingCall(c) ==
  \/ c.op = "uuid_to_sequential_int"
  \/ c.op = "apply_transformation" /\ c.kind = Kind("uuid_to_int")

\* C1: on a freshly constructed transformer the k-th distinct identifier seen
\* is given k, an identifier seen before is given the integer of its first
\* call, and in every state the table is injective, its values are exactly
\* 1..n for its n keys, and next_id = n + 1.
C1_SequentialInFirstSeenOrder ==
  LET n == Cardinality(DOMAIN uuid_to_int_map) IN
  /\ {uuid_to_int_map[k] : k \in DOMAIN uuid_to_int_map} = 1..n
  /\ \A k1, k2 \in DOMAIN uuid_to_int_map :
       uuid_to_int_map[k1] = uuid_to_int_map[k2] => k1 = k2
  /\ next_id = n + 1
  /\ DOMAIN uuid_to_int_map = Range(seen)
  /\ \A i \in 1..Len(seen) : uuid_to_int_map[seen[i]] = i
  /\ IsMappingCall(call) =>
       /\ call.error = NoError
       /\ call.ret = PyInt(IndexOf(seen, call.arg))

\* three distinct identifiers were mapped and the first of them was asked again
C1_Witness ==
  /\ call.op = "uuid_to_sequential_int"
  /\ Len(seen) = 3
  /\ call.arg = seen[1]
  /\ call.ret = PyInt(1)
  /\ next_id = 4

\* C2: the table and the counter change only in a mapping call with an
\* identifier that is not yet a key, and then by that one key (mapped to the
\* old counter) and a counter one higher; a mapping call with a key of the
\* table and every other call leave both unchanged.
C2_MapperChangesOnlyOnNewIdentifier ==
  [][ /\ (uuid_to_int_map' # uuid_to_int_map \/ next_id' # next_id) =>
           /\ call = NoCall
           /\ IsMappingCall(call')
           /\ call'.arg \notin DOMAIN uuid_to_int_map
           /\ DOMAIN uuid_to_int_map' = (DOMAIN uuid_to_int_map) \cup {call'.arg}
           /\ \A k \in DOMAIN uuid_to_int_map : uuid_to_int_map'[k] = uuid_to_int_map[k]
           /\ uuid_to_int_map'[call'.arg] = next_id
           /\ next_id' = next_id + 1
      /\ (call = NoCall /\ call' # NoCall
            /\ ~(IsMappingCall(call') /\ call'.arg \notin DOMAIN uuid_to_int_map)) =>
           /\ uuid_to_int_map' = uuid_to_int_map
           /\ next_id' = next_id
    ]_vars

\* a lookup of an identifier mapped earlier: the value returned is not the
\* last one allocated
C2_Witness ==
  /\ call.op = "uuid_to_sequential_int"
  /\ call.ret.int < next_id - 1
  /\ Cardinality(DOMAIN uuid_to_int_map) = next_id - 1

\* C3: apply_transformation with a kind that is given and is none of
\* 'uuid_to_int', 'redact', 'timestamp_to_date' returns nothing and raises
\* ValueError naming the kind and listing the three recognized kinds.
C3_UnknownKindRaises ==
  (/\ call.op = "apply_transformation"
   /\ call.kind # None
   /\ call.kind.kind \notin Recognized) =>
     /\ call.ret = NoValue
     /\ call.error = [type |-> "ValueError", unknown |-> call.kind.kind,
                      available |-> <<"uuid_to_int", "redact", "timestamp_to_date">>]

C3_Witness ==
  /\ call.op = "apply_transformation"
  /\ call.kind = Kind("unknown_transform")
  /\ call.error # NoError
  /\ call.error.unknown = "unknown_transform"

\* the date in the form YYYY-MM-DD: four, two and two digits
CanonicalDate(date) ==
  ZeroPad(IntToStr(date.year), 4) \o <<"-">> \o ZeroPad(IntToStr(date.month), 2)
  \o <<"-">> \o ZeroPad(IntToStr(date.day), 2)

\* what C10 says timestamp_to_date returns for the argument
RECURSIVE FirstMatchOrSelf(_, _)
FirstMatchOrSelf(s, i) ==
  IF i > 3 THEN s
  ELSE IF strptime(s, formats[i]).ok THEN CanonicalDate(strptime(s, formats[i]).date)
  ELSE FirstMatchOrSelf(s, i + 1)

\* C10: timestamp_to_date never fails on a string: with ' CET' removed and the
\* whitespace trimmed, it returns the date, as YYYY-MM-DD, of the first of the
\* three patterns that matches the whole string, and the preprocessed string
\* itself when none matches.
C10_NeverFailsFirstMatchOrFallback ==
  call.op = "timestamp_to_date" =>
    /\ call.error = NoError
    /\ call.ret = PyStr(FirstMatchOrSelf(StrStrip(StrReplace(call.arg, <<" ", "C", "E", "T">>, <<>>)), 1))

\* the same statement on a platform whose strftime pads the year
C10_HoldsWherePadded == pads_year => C10_NeverFailsFirstMatchOrFallback

\* the call went to redact, directly or through the dispatcher
IsRedactCall(c) ==
  \/ c.op = "redact"
  \/ c.op = "apply_transformation" /\ c.kind = Kind("redact")

\* exactly one '@', before it 5 to 10 lowercase letters, after it a domain of
\* the pool, which holds a '.'
IsGeneratedEmail(t) ==
  /\ CountOf(t, "@") = 1
  /\ LET at == IndexOf(t, "@")
         local_part == SubSeq(t, 1, at - 1)
         domain == SubSeq(t, at + 1, Len(t))
     IN  /\ Len(local_part) >= 5 /\ Len(local_part) <= 10
         /\ \A i \in 1..Len(local_part) : InSeq(ascii_lowercase, local_part[i])
         /\ InSeq(EMAIL_DOMAINS, domain)
         /\ Contains(domain, ".")

\* '<first> <last>': a first name of the pool, one space, a last name of the
\* pool, and no '@'
IsGeneratedName(t) ==
  /\ CountOf(t, "@") = 0
  /\ CountOf(t, " ") = 1
  /\ LET sp == IndexOf(t, " ") IN
     /\ InSeq(FIRST_NAMES, SubSeq(t, 1, sp - 1))
     /\ InSeq(LAST_NAMES, SubSeq(t, sp + 1, Len(t)))

\* C11: redact chooses its generator solely by whether the input contains '@':
\* with an '@' in the input the result has exactly one '@', a local part of 5
\* to 10 lowercase letters and a domain of the pool (so with a '.'); without,
\* the result is '<first> <last>' from the name pools and has no '@'.  Nothing
\* else of the input matters: the result is a possible result of every other
\* input that agrees on the '@' test.
C11_RedactChoosesByAtSignOnly ==
  IsRedactCall(call) =>
    /\ call.error = NoError
    /\ IsPyStr(call.ret)
    /\ IF Contains(call.arg, "@")
       THEN IsGeneratedEmail(call.ret.str)
       ELSE IsGeneratedName(call.ret.str)
    /\ \A other \in RedactInputs \cup PlainInputs :
         Contains(other, "@") = Contains(call.arg, "@") => call.ret \in redact(other)

\* redact of an input with two '@' returned an address with the longest local
\* part
C11_Witness ==
  /\ call.op = "redact"
  /\ CountOf(call.arg, "@") = 2
  /\ call.error = NoError
  /\ IsGeneratedEmail(call.ret.str)
  /\ IndexOf(call.ret.str, "@") = LocalLengthMax + 1

(***************************************************************************)
(* Properties of the runs (checked under SpecRun).                         *)
(***************************************************************************)
Running == pc # "idle"
Position(sq, x) == CHOOSE j \in 1..Len(sq) : sq[j] = x

\* the cell of input record i under the column
InputCell(i, column) ==
  args.input_file.rows[i][Position(args.input_file.header, column)]

\* the field of written record i under the column of the written header
Written(i, column) == output.records[i][Position(output.header, column)]

Configured(column) ==
  args.transformations # None /\ column \in DOMAIN args.transformations.dict
KindOf(column) == args.transformations.dict[column].kind

\* the identifier cells of the input in the order the run reaches them: record
\* by record and, within a record, in the order of the input header
RECURSIVE IdentifierCells(_, _)
IdentifierCells(i, j) ==
  IF i > Len(args.input_file.rows) THEN <<>>
  ELSE IF j > Len(args.input_file.header) THEN IdentifierCells(i + 1, 1)
  ELSE LET column == args.input_file.header[j] IN
       (IF Configured(column) /\ KindOf(column) = "uuid_to_int"
        THEN <<args.input_file.rows[i][j]>> ELSE <<>>)
       \o IdentifierCells(i, j + 1)

\* the identifiers of the run that were no key when the run was called, in
\* first-seen order
RECURSIVE FirstSeen(_, _)
FirstSeen(cells, acc) ==
  IF cells = <<>> THEN acc
  ELSE FirstSeen(Tail(cells),
                 IF Head(cells) \in DOMAIN start.map \/ InSeq(acc, Head(cells))
                 THEN acc ELSE Append(acc, Head(cells)))

\* the integer the run gives an identifier
ExpectedId(cell) ==
  IF cell \in DOMAIN start.map THEN start.map[cell]
  ELSE start.next_id + IndexOf(FirstSeen(IdentifierCells(1, 1), <<>>), cell) - 1

\* text is a transformed form of the cell of input record i under the column
IsTransformOf(text, i, column) ==
  IF ~Configured(column) THEN text = InputCell(i, column)
  ELSE CASE KindOf(column) = "uuid_to_int" ->
              text = IntToStr(ExpectedId(InputCell(i, column)))
         [] KindOf(column) = "timestamp_to_date" ->
              text = timestamp_to_date(InputCell(i, column), pads_year)
         [] KindOf(column) = "redact" ->
              PyStr(text) \in redact(InputCell(i, column))
         [] OTHER -> FALSE

\* C4: a value whose column has no configured transformation passes through
\* unchanged: the dispatcher returns the value itself, and in a completed run
\* every column that is no key of the transformations (every column when the
\* mapping is empty or None) holds, in every output record, the input value.
C4_UnconfiguredColumnsPassThrough ==
  /\ \A i \in 1..Len(transformed_rows) : \A column \in DOMAIN transformed_rows[i] :
       ~Configured(column) => transformed_rows[i][column] = PyStr(InputCell(i, column))
  /\ pc = "returned" =>
       \A i \in 1..Len(args.input_file.rows) : \A column \in Range(args.input_file.header) :
         ~Configured(column) =>
           /\ i <= Len(output.records)
           /\ column \in Range(output.header)
           /\ Written(i, column) = InputCell(i, column)

\* a completed run with an empty mapping, two records and reordered columns
C4_Witness ==
  /\ pc = "returned"
  /\ args.transformations = PyDict(EmptyDict)
  /\ args.column_order = PyList(<<"date", "name", "id">>)
  /\ Len(output.records) = 2
  /\ Written(1, "name") = <<"J", "o", "h", "n", " ", "D", "o", "e">>

\* C5: rows are processed in input order and written in that order: a
\* completed run on n records writes exactly n records and the i-th written
\* record is the transformation of the i-th input record (on a fresh
\* transformer with 'uuid_to_int' on the id column, the ids UUID-1, UUID-2
\* come out as '1', '2').
C5_RowOrderPreserved ==
  pc = "returned" =>
    /\ Len(output.records) = Len(args.input_file.rows)
    /\ \A i \in 1..Len(output.records) : \A column \in Range(args.input_file.header) :
         /\ column \in Range(output.header)
         /\ IsTransformOf(Written(i, column), i, column)
    /\ (/\ start.map = EmptyMap
        /\ Len(args.input_file.rows) >= 2
        /\ args.input_file.rows[1][1] = Uuid(1)
        /\ args.input_file.rows[2][1] = Uuid(2)
        /\ Configured("id") /\ KindOf("id") = "uuid_to_int"
        /\ ~Configured("manager_id")) =>
         /\ Written(1, "id") = <<"1">>
         /\ Written(2, "id") = <<"2">>

C5_Witness ==
  /\ pc = "returned"
  /\ start.map = EmptyMap
  /\ Len(args.input_file.rows) = 2
  /\ args.input_file.rows[1][1] = Uuid(1)
  /\ Configured("id") /\ Configured("date")
  /\ Len(output.records) = 2
  /\ Written(1, "id") = <<"1">> /\ Written(2, "id") = <<"2">>
  /\ Written(2, "date") = <<"2", "0", "2", "4", "-", "1", "2", "-", "3", "1">>

\* every written record holds, under each name of the header that is an
\* input column, the transformed value of that input column (and the empty
\* string under a name that is no input column)
RecordsAlignedWithHeader ==
  \A i \in 1..Len(output.records) :
    /\ Len(output.records[i]) = Len(output.header)
    /\ \A j \in 1..Len(output.header) :
         IF output.header[j] \in Range(args.input_file.header)
         THEN /\ output.records[i][j] = StrOf(transformed_rows[i][output.header[j]])
              /\ IsTransformOf(output.records[i][j], i, output.header[j])
         ELSE output.records[i][j] = <<>>

\* C6 as stated: the written header is column_order when one is supplied and
\* the input's column order otherwise, and the values stay under their names.
C6_LayoutIsColumnOrderWhenSupplied ==
  output.header_written =>
    /\ output.header = IF args.column_order # None THEN args.column_order.list
                       ELSE args.input_file.header
    /\ RecordsAlignedWithHeader

\* C6 amended: the written header is column_order when a non-empty one is
\* supplied and the input's column order when it is None or empty, and the
\* values stay under their names.
C6_LayoutIsColumnOrderWhenNonEmpty ==
  output.header_written =>
    /\ output.header = IF args.column_order # None /\ args.column_order.list # <<>>
                       THEN args.column_order.list
                       ELSE args.input_file.header
    /\ RecordsAlignedWithHeader

\* a reordered header with a record written under it
C6_Witness ==
  /\ output.header_written
  /\ output.header = <<"date", "manager_id", "id">>
  /\ Len(output.records) >= 1
  /\ Written(1, "id") = <<"1">>
  /\ Written(1, "manager_id") = <<"2">>

\* the kinds of the configuration that are not recognized
UnrecognizedColumns ==
  IF args.transformations = None THEN {}
  ELSE {column \in DOMAIN args.transformations.dict : KindOf(column) \notin Recognized}

\* C7 as stated: whenever the configuration supplies an unrecognized kind for
\* a column, the run does not report completion.
C7_UnrecognizedKindNeverCompletes ==
  (Running /\ UnrecognizedColumns # {}) => pc # "returned"

\* C7 amended: whenever the configuration supplies an unrecognized kind for a
\* column of the input header and the input has at least one record, the run
\* does not report completion: unless an I/O error on the input ends it first,
\* it raises ValueError, naming an unrecognized kind and listing the
\* recognized kinds, while the first record is transformed and before the
\* output is opened.
C7_UnrecognizedKindOfInputColumnRaises ==
  (/\ Running
   /\ UnrecognizedColumns \cap Range(args.input_file.header) # {}
   /\ Len(args.input_file.rows) >= 1) =>
     /\ pc \in {"open_input", "read_header", "read_rows", "raised"}
     /\ ~output.truncated
     /\ row_index <= 1
     /\ transformed_rows = <<>>
     /\ pc = "raised" =>
          \/ error = OSError
          \/ /\ row_index = 1
             /\ error.type = "ValueError"
             /\ error.unknown \in {KindOf(column) : column \in UnrecognizedColumns}
             /\ error.available = <<"uuid_to_int", "redact", "timestamp_to_date">>

\* the dispatcher raised on the date column after the id column was mapped
C7_Witness ==
  /\ pc = "raised"
  /\ error # NoError /\ error # OSError
  /\ error.unknown = "unknown_transform"
  /\ uuid_to_int_map # start.map

\* C8: no partial success: a run that returns normally has written the
\* header and the transformed form of every input row; otherwise an error of
\* the dispatcher or of the I/O layer ended the call.
C8_NoPartialSuccess ==
  /\ pc = "returned" =>
       /\ error = NoError
       /\ output.truncated
       /\ output.header_written
       /\ Len(transformed_rows) = Len(args.input_file.rows)
       /\ Len(output.records) = Len(args.input_file.rows)
       /\ \A i \in 1..Len(output.records) : \A j \in 1..Len(output.header) :
            output.records[i][j] =
              IF output.header[j] \in DOMAIN transformed_rows[i]
              THEN StrOf(transformed_rows[i][output.header[j]]) ELSE <<>>
  /\ pc = "raised" <=> error # NoError
  /\ error # NoError => error.type \in {"ValueError", "OSError"}

\* a run that raised after writing some of the rows
C8_Witness ==
  /\ pc = "raised"
  /\ output.truncated
  /\ Len(output.records) >= 1
  /\ Len(output.records) < Len(args.input_file.rows)

\* C9: the streams are scoped: a run that ended (returned or raised) has no
\* open stream, and at no point is a stream open other than the one being
\* read or written.
C9_StreamsScoped ==
  /\ ~(infile_open /\ outfile_open)
  /\ pc \in {"idle", "returned", "raised"} => ~infile_open /\ ~outfile_open
  /\ infile_open => pc \in {"read_header", "read_rows"}
  /\ outfile_open => pc \in {"write_header", "write_rows"}

\* the dispatcher raised while the rows were transformed; the input is closed
C9_Witness ==
  /\ pc = "raised"
  /\ error # NoError /\ error # OSError
  /\ "unknown" \in DOMAIN error
  /\ row_index = 1
  /\ ~infile_open

\* the distinct elements of cells, in first-seen order
RECURSIVE Distinct(_, _)
Distinct(cells, acc) ==
  IF cells = <<>> THEN acc ELSE Distinct(Tail(cells), Note(acc, Head(cells)))

\* the rank of the identifier among the identifiers of the run's own input
OwnRank(cell) == IndexOf(Distinct(IdentifierCells(1, 1), <<>>), cell)

\* the columns of the run configured 'uuid_to_int'
IdentifierColumns ==
  {column \in Range(args.input_file.header) :
     Configured(column) /\ KindOf(column) = "uuid_to_int"}

\* C12 as stated: every run works on a mapper that starts empty for that run,
\* so in whatever run, after whatever earlier runs, the integer in a
\* 'uuid_to_int' column is the rank of the identifier among the identifiers of
\* the run's own input (the first distinct identifier maps to 1).
C12_EveryRunStartsWithEmptyMapper ==
  Running =>
    /\ start.map = EmptyMap /\ start.next_id = 1
    /\ \A i \in 1..Len(transformed_rows) : \A column \in IdentifierColumns :
         transformed_rows[i][column] = PyInt(OwnRank(InputCell(i, column)))

\* C12, amended: a mapper belongs to one transformer: it holds exactly the
\* identifiers that transformer has mapped, numbered in first-seen order, and
\* never an identifier mapped on another transformer.  A run on a transformer
\* that has mapped nothing gives every identifier its rank among the
\* identifiers of the run's own input.  transform_csv does not reset the mapper:
\* a run on a transformer that has mapped identifiers before keeps their
\* integers and numbers the new identifiers from next_id on.
C12_MapperIsPerTransformer ==
  /\ DOMAIN uuid_to_int_map = Range(seen)
  /\ next_id = Len(seen) + 1
  /\ \A k \in 1..Len(seen) : uuid_to_int_map[seen[k]] = k
  /\ Running =>
       \A i \in 1..Len(transformed_rows) : \A column \in IdentifierColumns :
         /\ transformed_rows[i][column] = PyInt(ExpectedId(InputCell(i, column)))
         /\ start.map = EmptyMap =>
              transformed_rows[i][column] = PyInt(OwnRank(InputCell(i, column)))

\* a completed run on a transformer that an earlier run had used: the first
\* identifier of the input is new and gets the integer after the earlier one
C12_Witness ==
  /\ pc = "returned"
  /\ start.map # EmptyMap
  /\ start.next_id = 2
  /\ "id" \in IdentifierColumns
  /\ Len(transformed_rows) = 2
  /\ ~(InputCell(1, "id") \in DOMAIN start.map)
  /\ transformed_rows[1]["id"] = PyInt(2)
  /\ transformed_rows[2]["id"] = PyInt(1)

\* column_order lists every input column once
IsPermutationOfInput(column_order) ==
  /\ column_order # None
  /\ Len(column_order.list) = Len(args.input_file.header)
  /\ Range(column_order.list) = Range(args.input_file.header)

IsPrefix(p, sq) == Len(p) <= Len(sq) /\ SubSeq(sq, 1, Len(p)) = p

\* the value the run gives the cell of input record i under a column
\* configured 'uuid_to_int' or 'timestamp_to_date', read off the input and the
\* configuration alone: column_order has no part in it
ValueInInputOrder(i, column) ==
  IF KindOf(column) = "uuid_to_int"
  THEN PyInt(OwnRank(InputCell(i, column)))
  ELSE PyStr(timestamp_to_date(InputCell(i, column), pads_year))

OrderedColumns ==
  {column \in Range(args.input_file.header) :
     Configured(column) /\ KindOf(column) \in {"uuid_to_int", "timestamp_to_date"}}

\* C13: within each row the transformations are applied in the input's column
\* order, never the output order: on a fresh transformer the identifiers get
\* their integers in row-major order along the input header, so every
\* 'uuid_to_int' and 'timestamp_to_date' value is a function of the input and
\* the configuration only, and runs that differ only in column_order (a
\* permutation of the input columns) transform and write the same value for
\* every (row, column) of those columns.
C13_TransformedInInputColumnOrder ==
  Running /\ start.map = EmptyMap =>
    /\ IsPrefix(seen, Distinct(IdentifierCells(1, 1), <<>>))
    /\ \A i \in 1..Len(transformed_rows) : \A column \in OrderedColumns :
         transformed_rows[i][column] = ValueInInputOrder(i, column)
    /\ pc = "returned" /\ IsPermutationOfInput(args.column_order) =>
         \A i \in 1..Len(args.input_file.rows) : \A column \in OrderedColumns :
           Written(i, column) = StrOf(ValueInInputOrder(i, column))

\* a completed run on a fresh transformer with two identifier columns written
\* in the reverse of the input order: the identifier under 'id', first in the
\* input and last in the output, has 1 and the one under 'manager_id' has 2
C13_Witness ==
  /\ pc = "returned"
  /\ start.map = EmptyMap
  /\ args.input_file.header = <<"id", "manager_id", "date">>
  /\ IdentifierColumns = {"id", "manager_id"}
  /\ output.header = <<"date", "manager_id", "id">>
  /\ Len(output.records) = 3
  /\ output.records[1][3] = <<"1">>
  /\ output.records[1][2] = <<"2">>

(***************************************************************************)
(* Specifications.                                                         *)
(***************************************************************************)
\* the state after CSVTransformer(): an empty mapper, no call made, no run
Init ==
  /\ uuid_to_int_map = EmptyMap
  /\ next_id = 1
  /\ call = NoCall
  /\ seen = <<>>
  /\ pads_year \in BOOLEAN
  /\ pc = "idle"
  /\ args = None
  /\ input_columns = <<>>
  /\ transformed_rows = <<>>
  /\ row_index = 0
  /\ infile_open = FALSE
  /\ outfile_open = FALSE
  /\ output = Untouched
  /\ error = NoError
  /\ start = [map |-> EmptyMap, next_id |-> 1]

\* the public methods called in any order on one transformer
Next ==
  \/ CallUuidToSequentialInt
  \/ CallRedactName
  \/ CallRedactEmail
  \/ CallRedact
  \/ CallTimestampToDate
  \/ CallApplyTransformation
  \/ Discard

Spec == Init /\ [][Next]_vars

\* runs of transform_csv, one after the other, on a transformer or on a new one
NextRun ==
  \/ TransformCsv
  \/ OpenInput
  \/ OpenInputFails
  \/ ReadHeader
  \/ ReadFails
  \/ TransformNextRow
  \/ EndOfInput
  \/ OpenOutput
  \/ OpenOutputFails
  \/ WriteHeader
  \/ WriteRow
  \/ WriteFails
  \/ FinishWrite
  \/ AfterRun
  \/ Construct

SpecRun == Init /\ [][NextRun]_vars

=============================================================================
